---- MODULE Spec2Model ----
(***************************************************************************)
(* Model of src/dv.js: the report listing scans (getReports,               *)
(* getReportName, extractFilename) and the streaming row transformer       *)
(* (CSVExtractor._transform).                                              *)
(*                                                                         *)
(* Text is a sequence of one-character strings.  Time is counted in ticks, *)
(* TicksPerDay ticks to a day; a timestamp is a tick count since epoch.    *)
(***************************************************************************)
EXTENDS Integers, Sequences, FiniteSets, TLC

VARIABLES
    op,             \* which exported entry point this behaviour runs
    response,       \* what client.request resolves with
    requiredDates,  \* the caller's Set of date keys, mutated in place
    originalDates,  \* history: requiredDates as passed in
    lookbackDays,   \* argument lookbackDays
    today,          \* DateTime.utc() captured at call start
    reports,        \* the result map being built
    latestDate,     \* timestamp of the last DONE record seen, or Null
    idx,            \* number of records of the listing inspected so far
    pc,             \* position of the call
    stop,           \* why the for-loop was left
    fetches,        \* number of client.request calls made
    outcome,        \* what the call returned or threw
    input,          \* chunks not yet written to the transformer
    fed,            \* history: chunks handed to _transform, in order
    csvFound,       \* CSVExtractor.csvFound
    summaryFound,   \* CSVExtractor.summaryFound
    out,            \* history: events produced by the transformer, in order
    handoff,        \* state of the promise returned by handleFields
    doneCalls,      \* doneCalls[k]: times done was invoked for chunk k
    lineArg,        \* the argument of convertDate
    passes          \* history: the results of convertDate applied repeatedly to lineArg

vars == <<op, response, requiredDates, originalDates, lookbackDays, today,
          reports, latestDate, idx, pc, stop, fetches, outcome,
          input, fed, csvFound, summaryFound, out, handoff, doneCalls,
          lineArg, passes>>

scanVars == <<response, requiredDates, originalDates, lookbackDays, today,
              reports, latestDate, idx, stop, fetches, outcome>>

csvVars == <<input, fed, csvFound, summaryFound, out, handoff, doneCalls>>

dateVars == <<lineArg, passes>>

(***************************************************************************)
(* Bounds                                                                  *)
(***************************************************************************)
MaxRecords == 3
MaxTs == 3
MaxLookback == 1
MaxChunks == 4
MaxPieces == 3
MaxPasses == 2
TicksPerDay == 2

(***************************************************************************)
(* Program constants                                                       *)
(***************************************************************************)
REPORT_AVAILABLE == "DONE"
Null == -1

States == {REPORT_AVAILABLE, "RUNNING"}

\* "b/f_1_2_3_4.csv?k": the documented shape
UrlPlain == <<"b", "/", "f", "_", "1", "_", "2", "_", "3", "_", "4",
              ".", "c", "s", "v", "?", "k">>
\* "b/m_r_1_2_3_4.csv?k": an underscore inside the filename
UrlUnderscore == <<"b", "/", "m", "_", "r", "_", "1", "_", "2", "_", "3", "_", "4",
                   ".", "c", "s", "v", "?", "k">>
\* "a/b/g_1_2_3_4.csv?x/y": slashes before and after the filename
UrlSlashes == <<"a", "/", "b", "/", "g", "_", "1", "_", "2", "_", "3", "_", "4",
                ".", "c", "s", "v", "?", "x", "/", "y">>
\* "b/f_1_2.csv?k": too few segments
UrlShort == <<"b", "/", "f", "_", "1", "_", "2", ".", "c", "s", "v", "?", "k">>
\* "b/_1_2_3_4.csv?k": the pattern matches with an empty filename
UrlNoName == <<"b", "/", "_", "1", "_", "2", "_", "3", "_", "4",
               ".", "c", "s", "v", "?", "k">>

Urls == {UrlPlain, UrlUnderscore, UrlSlashes, UrlShort, UrlNoName}

\* urls of the records of a getReports listing, by position
UrlAt(k) == IF k % 2 = 1 THEN UrlPlain ELSE UrlUnderscore

(***************************************************************************)
(* Inputs                                                                  *)
(***************************************************************************)
\* the records a listing may hold at position k; reportId is the position
RecordsAt(k, tss, urlsAt) ==
    { [state |-> st, ts |-> t, url |-> u, file |-> k] :
        st \in States, t \in tss, u \in urlsAt[k] }

\* the listings of n records
RECURSIVE ListingsLen(_, _, _)
ListingsLen(n, tss, urlsAt) ==
    IF n = 0 THEN { <<>> }
    ELSE { Append(l, r) : l \in ListingsLen(n - 1, tss, urlsAt),
                          r \in RecordsAt(n, tss, urlsAt) }

ListingsOf(tss, urlsAt) == UNION { ListingsLen(n, tss, urlsAt) : n \in 0..MaxRecords }

ScanUrls == [k \in 1..MaxRecords |-> {UrlAt(k)}]
NameUrls ==
    [k \in 1..MaxRecords |->
        IF k % 2 = 1 THEN {UrlPlain, UrlShort, UrlNoName}
        ELSE {UrlUnderscore, UrlSlashes, UrlShort}]

Responses(listings) ==
    { [kind |-> "nodata", reports |-> <<>>], [kind |-> "noreports", reports |-> <<>>] }
      \cup { [kind |-> "list", reports |-> l] : l \in listings }

(***************************************************************************)
(* DateTime.fromMillis(ms).toFormat(dateFormat): the calendar day of a     *)
(* timestamp                                                               *)
(***************************************************************************)
DateKey(ts) == ts \div TicksPerDay

DateKeys == { DateKey(t) : t \in 0..MaxTs }

(***************************************************************************)
(* GCS_URL_PATTERN and extractFilename                                     *)
(***************************************************************************)
CsvMark == <<".", "c", "s", "v", "?">>

\* the literal "\.csv\?" stands at position d of url
MarkAt(url, d) ==
    /\ d + Len(CsvMark) - 1 <= Len(url)
    /\ \A j \in 1..Len(CsvMark) : url[d + j - 1] = CsvMark[j]

\* "_(.*)" k times and then "\.csv\?(.*)" can match url from position p on
RECURSIVE TailMatches(_, _, _)
TailMatches(url, p, k) ==
    IF k = 0
    THEN \E d \in p..Len(url) : MarkAt(url, d)
    ELSE \E u \in p..Len(url) : url[u] = "_" /\ TailMatches(url, u + 1, k - 1)

\* positions of the "/" after group 1 with which the whole pattern matches
SlashChoices(url) ==
    { i \in 1..Len(url) :
        url[i] = "/" /\ \E u \in (i + 1)..Len(url) :
                           url[u] = "_" /\ TailMatches(url, u + 1, 3) }

SetMax(S) == CHOOSE x \in S : \A y \in S : y <= x

\* GCS_URL_PATTERN.exec(url): whether it matches and the named group; both
\* (.*) before the filename's "_" are greedy: the last "/" and then the last
\* "_" that let the rest match
PatternExec(url) ==
    IF SlashChoices(url) = {} THEN [matched |-> FALSE, filename |-> <<>>]
    ELSE LET i == SetMax(SlashChoices(url))
             u == SetMax({ v \in (i + 1)..Len(url) :
                             url[v] = "_" /\ TailMatches(url, v + 1, 3) })
         IN  [matched |-> TRUE, filename |-> SubSeq(url, i + 1, u - 1)]

Threw(msg) == [status |-> "threw", error |-> msg, value |-> <<>>]
Returned(v) == [status |-> "returned", error |-> "", value |-> v]
NoOutcome == [status |-> "pending", error |-> "", value |-> <<>>]

\* faulty variant: the missing-match check is dropped and an empty name is returned
extractFilename_NoThrow(url) ==
    LET match == PatternExec(url)
    IN  Returned(match.filename)

extractFilename(url) ==
    LET match == PatternExec(url)
    IN  IF ~match.matched \/ match.filename = <<>>
        THEN Threw("Unable to extract filename from URL.")
        ELSE Returned(match.filename)

(***************************************************************************)
(* The body of the for-loop of getReports (src/dv.js 96-118) on the scan   *)
(* state s = [required, reports, latest]                                   *)
(***************************************************************************)
ScanStart(required) == [required |-> required, reports |-> <<>>, latest |-> Null]

\* reports[reportDate] = {url, file}
Put(map, key, rec) ==
    [k \in DOMAIN map \cup {key} |->
        IF k = key THEN [url |-> rec.url, file |-> rec.file] ELSE map[k]]

\* faulty variant: the matched date is not removed from the set
ProcessRecord_KeepsDate(s, rec) ==
    IF rec.state = REPORT_AVAILABLE
    THEN LET reportDate == DateKey(rec.ts)
         IN  [required |-> s.required,
              reports  |-> IF reportDate \in s.required
                           THEN Put(s.reports, reportDate, rec)
                           ELSE s.reports,
              latest   |-> rec.ts]
    ELSE s

\* faulty variant: the entry is written without asking whether delete removed the date
ProcessRecord_Overwrite(s, rec) ==
    IF rec.state = REPORT_AVAILABLE
    THEN LET reportDate == DateKey(rec.ts)
         IN  [required |-> s.required \ {reportDate},
              reports  |-> IF reportDate \in s.required \/ reportDate \in DOMAIN s.reports
                           THEN Put(s.reports, reportDate, rec)
                           ELSE s.reports,
              latest   |-> rec.ts]
    ELSE s

ProcessRecord(s, rec) ==
    IF rec.state = REPORT_AVAILABLE
    THEN LET reportDate == DateKey(rec.ts)
         IN  [required |-> s.required \ {reportDate},
              reports  |-> IF reportDate \in s.required
                           THEN Put(s.reports, reportDate, rec)
                           ELSE s.reports,
              latest   |-> rec.ts]
    ELSE s

\* requiredDates.length === 0: requiredDates is a Set (it is used through
\* .delete), a Set has no length property, and undefined === 0 is false
NoDatesRemaining(required) == FALSE

\* faulty variant: the difference is taken the other way round
ExceededLookback_Reversed(now, latest, lookback) ==
    latest - now > lookback * TicksPerDay

\* today.diff(latestDate).as('days') > lookbackDays
ExceededLookback(now, latest, lookback) ==
    now - latest > lookback * TicksPerDay

\* faulty variant: the lookback break is missing
BreakTaken_NoLookbackBreak(s, lookback, now) ==
    IF NoDatesRemaining(s.required) THEN "drained"
    ELSE IF s.latest = Null THEN "nodone"
    ELSE "none"

\* faulty variant: the latestDate === null break is missing
BreakTaken_NoNullBreak(s, lookback, now) ==
    IF NoDatesRemaining(s.required) THEN "drained"
    ELSE IF s.latest # Null /\ ExceededLookback(now, s.latest, lookback) THEN "lookback"
    ELSE "none"

\* the if / else-if chain after each record: which break is taken
BreakTaken(s, lookback, now) ==
    IF NoDatesRemaining(s.required) THEN "drained"
    ELSE IF s.latest = Null THEN "nodone"
    ELSE IF ExceededLookback(now, s.latest, lookback) THEN "lookback"
    ELSE "none"

\* the whole loop from record i + 1 on: the final scan state and the number
\* of records inspected
RECURSIVE RunScan(_, _, _, _, _)
RunScan(list, i, s, lookback, now) ==
    IF i >= Len(list) THEN [s |-> s, inspected |-> i, stop |-> "exhausted"]
    ELSE LET t == ProcessRecord(s, list[i + 1])
             b == BreakTaken(t, lookback, now)
         IN  IF b # "none" THEN [s |-> t, inspected |-> i + 1, stop |-> b]
             ELSE RunScan(list, i + 1, t, lookback, now)

\* faulty variant: the length === 0 test is missing
InvalidResponse_NoLength(r) == r.kind # "list"

\* response.data / response.data.reports missing or empty
InvalidResponse(r) == r.kind # "list" \/ Len(r.reports) = 0

\* faulty variant: the loop has no break, the last DONE record wins
RECURSIVE LocateFrom_NoBreak(_, _)
LocateFrom_NoBreak(list, i) ==
    IF i > Len(list) THEN [fileUrl |-> <<>>, inspected |-> Len(list)]
    ELSE LET rest == LocateFrom_NoBreak(list, i + 1)
         IN  IF list[i].state = REPORT_AVAILABLE /\ rest.fileUrl = <<>>
             THEN [fileUrl |-> list[i].url, inspected |-> Len(list)]
             ELSE rest

\* the for-loop of getReportName (src/dv.js 65-71) from record i on: the
\* fileUrl it leaves and the number of records inspected
RECURSIVE LocateFrom(_, _)
LocateFrom(list, i) ==
    IF i > Len(list) THEN [fileUrl |-> <<>>, inspected |-> Len(list)]
    ELSE IF list[i].state = REPORT_AVAILABLE
         THEN [fileUrl |-> list[i].url, inspected |-> i]
         ELSE LocateFrom(list, i + 1)

(***************************************************************************)
(* convertDate: DATE_PATTERN replaced globally, left to right              *)
(***************************************************************************)
Digits == {"0", "1", "2", "3", "4", "5", "6", "7", "8", "9"}

\* DATE_PATTERN matches at position p of line
DateAt(line, p) ==
    /\ p + 9 <= Len(line)
    /\ \A j \in {0, 1, 2, 3, 5, 6, 8, 9} : line[p + j] \in Digits
    /\ line[p + 4] = "/"
    /\ line[p + 7] = "/"

RECURSIVE ConvertFrom(_, _)
ConvertFrom(line, p) ==
    IF p > Len(line) THEN <<>>
    ELSE IF DateAt(line, p)
         THEN SubSeq(line, p, p + 3) \o <<"-">> \o SubSeq(line, p + 5, p + 6)
                \o <<"-">> \o SubSeq(line, p + 8, p + 9) \o ConvertFrom(line, p + 10)
         ELSE <<line[p]>> \o ConvertFrom(line, p + 1)

\* faulty variant: the pattern is applied without the g flag, first match only
convertDate_FirstOnly(line) ==
    IF \E p \in 1..Len(line) : DateAt(line, p)
    THEN LET p == CHOOSE q \in 1..Len(line) :
                    DateAt(line, q) /\ \A r \in 1..(q - 1) : ~DateAt(line, r)
         IN  SubSeq(line, 1, p + 3) \o <<"-">> \o SubSeq(line, p + 5, p + 6)
               \o <<"-">> \o SubSeq(line, p + 8, Len(line))
    ELSE line

convertDate(line) == ConvertFrom(line, 1)

\* chunk.toString().split(',')
RECURSIVE SplitFrom(_, _, _)
SplitFrom(line, p, cur) ==
    IF p > Len(line) THEN <<cur>>
    ELSE IF line[p] = "," THEN <<cur>> \o SplitFrom(line, p + 1, <<>>)
         ELSE SplitFrom(line, p + 1, Append(cur, line[p]))

Split(line) == SplitFrom(line, 1, <<>>)

(***************************************************************************)
(* Chunks                                                                  *)
(***************************************************************************)
\* "n,v"
ChunkHeader == <<"n", ",", "v">>
\* "a,2021/06/01"
ChunkDated == <<"a", ",", "2", "0", "2", "1", "/", "0", "6", "/", "0", "1">>
\* ""
ChunkBlank == <<>>
\* ",5"
ChunkComma == <<",", "5">>
\* " "
ChunkSpace == <<" ">>

Chunks == {ChunkHeader, ChunkDated, ChunkBlank, ChunkComma, ChunkSpace}

ChunkSeqs == UNION { [1..n -> Chunks] : n \in 0..MaxChunks }

\* the pieces lines are put together from
\* "2021/06/01"
PieceSlashDate == <<"2", "0", "2", "1", "/", "0", "6", "/", "0", "1">>
\* "2021-06-01"
PieceDashDate == <<"2", "0", "2", "1", "-", "0", "6", "-", "0", "1">>
\* "23/45/67"
PieceShortDate == <<"2", "3", "/", "4", "5", "/", "6", "7">>
\* "7"
PieceDigit == <<"7">>
\* ","
PieceComma == <<",">>
\* "/"
PieceSlash == <<"/">>

Pieces == {PieceSlashDate, PieceDashDate, PieceShortDate, PieceDigit, PieceComma,
           PieceSlash}

\* the lines of n pieces
RECURSIVE LinesLen(_)
LinesLen(n) ==
    IF n = 0 THEN { <<>> }
    ELSE { l \o q : l \in LinesLen(n - 1), q \in Pieces }

Lines == UNION { LinesLen(n) : n \in 0..MaxPieces }

\* line.length === 0 || line[0] === ','
IsSummaryLine(line) == Len(line) = 0 \/ line[1] = ","

(***************************************************************************)
(* Events of the stream; at is the position in fed of the chunk whose      *)
(* _transform call produced the event                                      *)
(***************************************************************************)
\* CSVExtractorBase.handleFields(names): hand the field names downstream
handleFields(log, names, at) ==
    Append(log, [kind |-> "fields", at |-> at, names |-> names, text |-> <<>>])

\* CSVExtractorBase.pushLine(line): emit one transformed data line
pushLine(log, line, at) ==
    Append(log, [kind |-> "line", at |-> at, names |-> <<>>, text |-> line])

\* this.push(null)
pushNull(log, at) ==
    Append(log, [kind |-> "eos", at |-> at, names |-> <<>>, text |-> <<>>])

(***************************************************************************)
(* Initial states                                                          *)
(***************************************************************************)
\* DateTime.utc() at call start: no report ends after now
Now == MaxTs

ScanIdle ==
    /\ response = [kind |-> "nodata", reports |-> <<>>]
    /\ requiredDates = {}
    /\ originalDates = {}
    /\ lookbackDays = 0
    /\ today = Now
    /\ reports = <<>>
    /\ latestDate = Null
    /\ idx = 0
    /\ stop = "none"
    /\ fetches = 0
    /\ outcome = NoOutcome

CsvIdle ==
    /\ input = <<>>
    /\ fed = <<>>
    /\ csvFound = FALSE
    /\ summaryFound = FALSE
    /\ out = <<>>
    /\ handoff = "none"
    /\ doneCalls = <<>>

DateIdle ==
    /\ lineArg = <<>>
    /\ passes = <<>>

InitReports ==
    /\ op = "getReports"
    /\ pc = "called"
    /\ response \in Responses(ListingsOf(0..MaxTs, ScanUrls))
    /\ requiredDates \in SUBSET DateKeys
    /\ originalDates = requiredDates
    /\ lookbackDays \in 0..MaxLookback
    /\ today = Now
    /\ reports = <<>>
    /\ latestDate = Null
    /\ idx = 0
    /\ stop = "none"
    /\ fetches = 0
    /\ outcome = NoOutcome
    /\ CsvIdle
    /\ DateIdle

InitName ==
    /\ op = "getReportName"
    /\ pc = "called"
    /\ response \in Responses(ListingsOf({0, MaxTs}, NameUrls))
    /\ requiredDates = {}
    /\ originalDates = {}
    /\ lookbackDays = 0
    /\ today = Now
    /\ reports = <<>>
    /\ latestDate = Null
    /\ idx = 0
    /\ stop = "none"
    /\ fetches = 0
    /\ outcome = NoOutcome
    /\ CsvIdle
    /\ DateIdle

\* new CSVExtractor(opts)
InitCSV ==
    /\ op = "CSVExtractor"
    /\ pc = "stream"
    /\ ScanIdle
    /\ input \in ChunkSeqs
    /\ fed = <<>>
    /\ csvFound = FALSE
    /\ summaryFound = FALSE
    /\ out = <<>>
    /\ handoff = "none"
    /\ doneCalls = <<>>
    /\ DateIdle

\* a call of convertDate
InitDate ==
    /\ op = "convertDate"
    /\ pc = "convert"
    /\ ScanIdle
    /\ CsvIdle
    /\ lineArg \in Lines
    /\ passes = <<>>

Init == InitReports \/ InitName \/ InitCSV \/ InitDate

(***************************************************************************)
(* getReports and getReportName                                            *)
(***************************************************************************)
\* await client.request({url}) resolves; the response is validated
Fetch ==
    /\ pc = "called"
    /\ fetches' = fetches + 1
    /\ IF InvalidResponse(response)
       THEN /\ pc' = "done"
            /\ outcome' = Threw("Invalid or empty API response.")
       ELSE /\ pc' = IF op = "getReports" THEN "loop" ELSE "locate"
            /\ outcome' = outcome
    /\ UNCHANGED <<op, response, requiredDates, originalDates, lookbackDays, today,
                   reports, latestDate, idx, stop>>
    /\ UNCHANGED csvVars
    /\ UNCHANGED dateVars

\* await client.request({url}) rejects
FetchRejects ==
    /\ pc = "called"
    /\ fetches' = fetches + 1
    /\ pc' = "done"
    /\ outcome' = Threw("request failed")
    /\ UNCHANGED <<op, response, requiredDates, originalDates, lookbackDays, today,
                   reports, latestDate, idx, stop>>
    /\ UNCHANGED csvVars
    /\ UNCHANGED dateVars

\* one iteration of the for-loop of getReports; a break returns reports
ScanRecord ==
    /\ pc = "loop"
    /\ idx < Len(response.reports)
    /\ LET s == [required |-> requiredDates, reports |-> reports, latest |-> latestDate]
           t == ProcessRecord(s, response.reports[idx + 1])
           b == BreakTaken(t, lookbackDays, today)
       IN  /\ requiredDates' = t.required
           /\ reports' = t.reports
           /\ latestDate' = t.latest
           /\ idx' = idx + 1
           /\ stop' = b
           /\ IF b # "none"
              THEN pc' = "done" /\ outcome' = Returned(t.reports)
              ELSE pc' = pc /\ outcome' = outcome
    /\ UNCHANGED <<op, response, originalDates, lookbackDays, today, fetches>>
    /\ UNCHANGED csvVars
    /\ UNCHANGED dateVars

\* the listing is exhausted: return reports
ScanExhausted ==
    /\ pc = "loop"
    /\ idx = Len(response.reports)
    /\ stop' = "exhausted"
    /\ pc' = "done"
    /\ outcome' = Returned(reports)
    /\ UNCHANGED <<op, response, requiredDates, originalDates, lookbackDays, today,
                   reports, latestDate, idx, fetches>>
    /\ UNCHANGED csvVars
    /\ UNCHANGED dateVars

\* the for-loop of getReportName and return extractFilename(fileUrl)
LocateReport ==
    /\ pc = "locate"
    /\ LET found == LocateFrom(response.reports, 1)
       IN  /\ idx' = found.inspected
           /\ outcome' = extractFilename(found.fileUrl)
    /\ pc' = "done"
    /\ UNCHANGED <<op, response, requiredDates, originalDates, lookbackDays, today,
                   reports, latestDate, stop, fetches>>
    /\ UNCHANGED csvVars
    /\ UNCHANGED dateVars

(***************************************************************************)
(* CSVExtractor._transform; the stream hands over the next chunk once done *)
(* was invoked for the previous one                                        *)
(***************************************************************************)
Ready ==
    /\ pc = "stream"
    /\ input # <<>>
    /\ \A k \in 1..Len(fed) : doneCalls[k] > 0

Deliver ==
    /\ fed' = Append(fed, Head(input))
    /\ input' = Tail(input)

\* faulty variant: done is invoked at once instead of after the handoff
TransformHeader_DoneAtOnce ==
    /\ Ready
    /\ ~csvFound /\ ~summaryFound
    /\ Deliver
    /\ csvFound' = TRUE
    /\ out' = handleFields(out, Split(Head(input)), Len(fed) + 1)
    /\ handoff' = "pending"
    /\ doneCalls' = Append(doneCalls, 1)
    /\ UNCHANGED <<op, pc, summaryFound>>
    /\ UNCHANGED scanVars
    /\ UNCHANGED dateVars

\* else branch: the first chunk is the header; done waits for handleFields
TransformHeader ==
    /\ Ready
    /\ ~csvFound /\ ~summaryFound
    /\ Deliver
    /\ csvFound' = TRUE
    /\ out' = handleFields(out, Split(Head(input)), Len(fed) + 1)
    /\ handoff' = "pending"
    /\ doneCalls' = Append(doneCalls, 0)
    /\ UNCHANGED <<op, pc, summaryFound>>
    /\ UNCHANGED scanVars
    /\ UNCHANGED dateVars

\* handleFields(names) resolves: .then(done)
HandoffResolves ==
    /\ pc = "stream"
    /\ handoff = "pending"
    /\ handoff' = "resolved"
    /\ doneCalls' = [doneCalls EXCEPT ![1] = @ + 1]
    /\ UNCHANGED <<op, pc, input, fed, csvFound, summaryFound, out>>
    /\ UNCHANGED scanVars
    /\ UNCHANGED dateVars

\* handleFields(names) rejects: the promise chain has no rejection handler
HandoffRejects ==
    /\ pc = "stream"
    /\ handoff = "pending"
    /\ handoff' = "rejected"
    /\ UNCHANGED <<op, pc, input, fed, csvFound, summaryFound, out, doneCalls>>
    /\ UNCHANGED scanVars
    /\ UNCHANGED dateVars

\* faulty variant: the line is pushed without convertDate
TransformData_Raw ==
    /\ Ready
    /\ csvFound
    /\ Deliver
    /\ IF IsSummaryLine(Head(input))
       THEN /\ summaryFound' = TRUE
            /\ csvFound' = FALSE
            /\ out' = out
       ELSE /\ out' = pushLine(out, Head(input), Len(fed) + 1)
            /\ UNCHANGED <<csvFound, summaryFound>>
    /\ doneCalls' = Append(doneCalls, 1)
    /\ UNCHANGED <<op, pc, handoff>>
    /\ UNCHANGED scanVars
    /\ UNCHANGED dateVars

\* faulty variant: csvFound is not cleared at the summary line
TransformData_KeepsCsvFound ==
    /\ Ready
    /\ csvFound
    /\ Deliver
    /\ IF IsSummaryLine(Head(input))
       THEN /\ summaryFound' = TRUE
            /\ UNCHANGED <<csvFound, out>>
       ELSE /\ out' = pushLine(out, convertDate(Head(input)), Len(fed) + 1)
            /\ UNCHANGED <<csvFound, summaryFound>>
    /\ doneCalls' = Append(doneCalls, 1)
    /\ UNCHANGED <<op, pc, handoff>>
    /\ UNCHANGED scanVars
    /\ UNCHANGED dateVars

\* if (this.csvFound): a summary line ends the data, any other line is pushed
TransformData ==
    /\ Ready
    /\ csvFound
    /\ Deliver
    /\ IF IsSummaryLine(Head(input))
       THEN /\ summaryFound' = TRUE
            /\ csvFound' = FALSE
            /\ out' = out
       ELSE /\ out' = pushLine(out, convertDate(Head(input)), Len(fed) + 1)
            /\ UNCHANGED <<csvFound, summaryFound>>
    /\ doneCalls' = Append(doneCalls, 1)
    /\ UNCHANGED <<op, pc, handoff>>
    /\ UNCHANGED scanVars
    /\ UNCHANGED dateVars

\* faulty variant: a chunk after the summary line resets the flags
TransformSummary_Resets ==
    /\ Ready
    /\ ~csvFound /\ summaryFound
    /\ Deliver
    /\ out' = pushNull(out, Len(fed) + 1)
    /\ summaryFound' = FALSE
    /\ doneCalls' = Append(doneCalls, 1)
    /\ UNCHANGED <<op, pc, csvFound, handoff>>
    /\ UNCHANGED scanVars
    /\ UNCHANGED dateVars

\* faulty variant: the end of the stream is signalled once only
TransformSummary_Once ==
    /\ Ready
    /\ ~csvFound /\ summaryFound
    /\ Deliver
    /\ out' = IF \E k \in 1..Len(out) : out[k].kind = "eos"
              THEN out ELSE pushNull(out, Len(fed) + 1)
    /\ doneCalls' = Append(doneCalls, 1)
    /\ UNCHANGED <<op, pc, csvFound, summaryFound, handoff>>
    /\ UNCHANGED scanVars
    /\ UNCHANGED dateVars

\* else if (this.summaryFound): this.push(null)
TransformSummary ==
    /\ Ready
    /\ ~csvFound /\ summaryFound
    /\ Deliver
    /\ out' = pushNull(out, Len(fed) + 1)
    /\ doneCalls' = Append(doneCalls, 1)
    /\ UNCHANGED <<op, pc, csvFound, summaryFound, handoff>>
    /\ UNCHANGED scanVars
    /\ UNCHANGED dateVars

(***************************************************************************)
(* convertDate applied to lineArg, and again to its own result             *)
(***************************************************************************)
ConvertLine ==
    /\ pc = "convert"
    /\ Len(passes) < MaxPasses
    /\ passes' = Append(passes,
                        convertDate(IF passes = <<>> THEN lineArg ELSE passes[Len(passes)]))
    /\ UNCHANGED <<op, pc, lineArg>>
    /\ UNCHANGED scanVars
    /\ UNCHANGED csvVars

(***************************************************************************)
(* Specifications                                                          *)
(***************************************************************************)
NextReports == Fetch \/ FetchRejects \/ ScanRecord \/ ScanExhausted

NextName == Fetch \/ FetchRejects \/ LocateReport

NextCSV ==
    TransformHeader \/ HandoffResolves \/ HandoffRejects \/ TransformData
      \/ TransformSummary

NextDate == ConvertLine

Next == NextReports \/ NextName \/ NextCSV \/ NextDate

SpecReports == InitReports /\ [][NextReports]_vars

SpecName == InitName /\ [][NextName]_vars

SpecCSV == InitCSV /\ [][NextCSV]_vars

SpecDate == InitDate /\ [][NextDate]_vars

Spec == Init /\ [][Next]_vars

(***************************************************************************)
(* Properties                                                              *)
(***************************************************************************)
Listing == response.reports

EventsOf(kind) == { k \in 1..Len(out) : out[k].kind = kind }

\* positions in fed of the summary lines that follow the header
Boundaries == { b \in 2..Len(fed) : IsSummaryLine(fed[b]) }

DonePositions == { k \in 1..Len(Listing) : Listing[k].state = REPORT_AVAILABLE }

SetMin(S) == CHOOSE x \in S : \A y \in S : x <= y

\* getReports has returned its map
ScanReturned == op = "getReports" /\ pc = "done" /\ outcome.status = "returned"

\* getReportName went through its loop
Located == op = "getReportName" /\ pc = "done" /\ idx > 0

\* C1: once a chunk was fed the field names were handed over exactly once,
\* every pushed data line comes after that handoff, and no data line is
\* pushed for a chunk that arrives after a summary line
C1_HeaderOnceBeforeData ==
    op = "CSVExtractor" =>
        /\ (Len(fed) >= 1 => Cardinality(EventsOf("fields")) = 1)
        /\ (Len(fed) = 0 => out = <<>>)
        /\ \A k \in EventsOf("line") : \E h \in EventsOf("fields") : h < k
        /\ \A k \in EventsOf("line") : \A b \in Boundaries : ~(b < out[k].at)

C1_Witness ==
    /\ op = "CSVExtractor"
    /\ Len(fed) = 4
    /\ ~IsSummaryLine(fed[2])
    /\ IsSummaryLine(fed[3])
    /\ ~IsSummaryLine(fed[4])
    /\ Cardinality(EventsOf("line")) = 1
    /\ Cardinality(EventsOf("fields")) = 1

\* the listing is in descending-recency order
Descending ==
    \A j, k \in 1..Len(Listing) : j < k => Listing[j].ts >= Listing[k].ts

\* every originally required date is the date of a DONE record whose
\* timestamp lies within lookbackDays of now
AllDatesAvailable ==
    \A d \in originalDates :
        \E k \in DonePositions :
            /\ DateKey(Listing[k].ts) = d
            /\ ~ExceededLookback(today, Listing[k].ts, lookbackDays)

\* C2: on a descending listing that holds every required date among its
\* DONE records within the lookback window, getReports returns with the set
\* drained, an entry for every required date, and without having gone on
\* past a record older than the oldest required date
C2_SetDrainTermination ==
    (ScanReturned /\ Descending /\ AllDatesAvailable /\ originalDates # {}) =>
        /\ requiredDates = {}
        /\ DOMAIN reports = originalDates
        /\ \A k \in 1..(idx - 1) :
              DateKey(Listing[k].ts) >= SetMin(originalDates)

\* the listing without its records that are not DONE
DoneOnly == SelectSeq(Listing, LAMBDA r : r.state = REPORT_AVAILABLE)

\* C3: the map returned and the dates left are those of the scan of the
\* listing with every record that is not DONE removed
C3_NonDoneInert ==
    ScanReturned =>
        LET r == RunScan(DoneOnly, 0, ScanStart(originalDates), lookbackDays, today)
        IN  /\ reports = r.s.reports
            /\ requiredDates = r.s.required

\* the map getReports returns for the same listing, dates and now with
\* lookback window L
ReportsWith(L) == RunScan(Listing, 0, ScanStart(originalDates), L, today).s.reports

\* C4: every entry of the returned map is an entry, with the same url and
\* file, of the map returned for any larger lookback window
C4_LookbackMonotone ==
    ScanReturned =>
        \A L \in lookbackDays..MaxLookback :
            \A d \in DOMAIN reports :
                d \in DOMAIN ReportsWith(L) /\ ReportsWith(L)[d] = reports[d]

C4_Witness ==
    /\ ScanReturned
    /\ lookbackDays < MaxLookback
    /\ stop = "lookback"
    /\ DOMAIN reports # {}
    /\ DOMAIN ReportsWith(MaxLookback) # DOMAIN reports
    /\ \E j, k \in DonePositions :
          j < k /\ DateKey(Listing[j].ts) = DateKey(Listing[k].ts)

\* C5: on a non-empty listing without DONE records getReports returns an
\* empty map, leaves the required dates alone and inspects one record only
C5_NoDoneStopsAtFirst ==
    (ScanReturned /\ Len(Listing) > 0 /\ DonePositions = {}) =>
        /\ outcome.value = <<>>
        /\ reports = <<>>
        /\ requiredDates = originalDates
        /\ idx = 1
        /\ stop = "nodone"

C5_Witness ==
    /\ ScanReturned
    /\ Len(Listing) = MaxRecords
    /\ DonePositions = {}
    /\ originalDates # {}
    /\ idx = 1

\* every chunk was written and its _transform call is over
StreamConsumed ==
    /\ op = "CSVExtractor"
    /\ input = <<>>
    /\ \A k \in 1..Len(fed) : doneCalls[k] > 0

\* C6 as stated: a chunk sequence with a summary line gets exactly one
\* end-of-stream signal
C6_EndSignalledOnce ==
    (StreamConsumed /\ Boundaries # {}) => Cardinality(EventsOf("eos")) = 1

\* C6 as amended: the end of the stream is signalled once for each chunk
\* that arrives after the first summary line, and for no other chunk
C6_EndSignalledPerLateChunk ==
    op = "CSVExtractor" =>
        /\ \A e \in EventsOf("eos") : out[e].at \in 1..Len(fed)
        /\ \A k \in 1..Len(fed) :
              Cardinality({ e \in EventsOf("eos") : out[e].at = k })
                = IF \E b \in Boundaries : b < k THEN 1 ELSE 0

C6_Witness ==
    /\ StreamConsumed
    /\ Len(fed) = 4
    /\ Boundaries = {2}
    /\ Cardinality(EventsOf("eos")) = 2

\* C7: done of the header chunk is invoked only once the handoff has
\* resolved, and no data line is pushed while the handoff is pending
C7_HandoffBarrier ==
    op = "CSVExtractor" =>
        /\ (Len(fed) >= 1 /\ doneCalls[1] > 0 => handoff = "resolved")
        /\ (handoff = "pending" => Len(fed) = 1 /\ EventsOf("line") = {})

C7_Witness ==
    /\ op = "CSVExtractor"
    /\ handoff = "pending"
    /\ Len(fed) = 1
    /\ doneCalls[1] = 0
    /\ input # <<>>
    /\ ~IsSummaryLine(Head(input))

\* C8: the outcome of getReportName is that of extractFilename on the url
\* of the first DONE record of the listing, and no record after that one is
\* inspected
C8_FirstDoneDecides ==
    (Located /\ DonePositions # {}) =>
        /\ outcome = extractFilename(Listing[SetMin(DonePositions)].url)
        /\ idx = SetMin(DonePositions)

C8_Witness ==
    /\ Located
    /\ outcome.status = "returned"
    /\ \E j, k \in DonePositions :
          /\ j < k
          /\ Listing[j].url # Listing[k].url
          /\ Listing[j].ts # Listing[k].ts
          /\ outcome.value = PatternExec(Listing[j].url).filename
          /\ outcome.value # PatternExec(Listing[k].url).filename
          /\ \A i \in 1..(j - 1) : Listing[i].state # REPORT_AVAILABLE
    /\ Listing[1].state # REPORT_AVAILABLE

\* C9 as stated: without a DONE record getReportName returns an empty value
C9_ReturnsSentinel ==
    (Located /\ DonePositions = {}) =>
        outcome.status = "returned" /\ outcome.value = <<>>

\* C9 as amended: without a DONE record getReportName throws the error of
\* extractFilename
C9_ThrowsWithoutDone ==
    (Located /\ DonePositions = {}) =>
        outcome = Threw("Unable to extract filename from URL.")

C9_Witness ==
    /\ Located
    /\ DonePositions = {}
    /\ Len(Listing) = MaxRecords
    /\ outcome.status = "threw"

\* C10: on a malformed or empty response getReports and getReportName
\* throw after one fetch, with no map returned and the required dates as
\* they were passed in
C10_InvalidResponseThrows ==
    (/\ op \in {"getReports", "getReportName"}
     /\ (response.kind \in {"nodata", "noreports"} \/ Len(response.reports) = 0)) =>
        /\ pc \in {"called", "done"}
        /\ fetches <= 1
        /\ (pc = "done" =>
              /\ fetches = 1
              /\ outcome.status = "threw"
              /\ outcome.error \in {"Invalid or empty API response.", "request failed"})
        /\ reports = <<>>
        /\ idx = 0
        /\ requiredDates = originalDates

C10_Witness ==
    /\ op = "getReports"
    /\ pc = "done"
    /\ response.kind = "list"
    /\ Len(response.reports) = 0
    /\ outcome = Threw("Invalid or empty API response.")
    /\ originalDates # {}

\* C11: when the header handoff fails, done of the header chunk is invoked
\* (with the error), so the stream is not left waiting
C11_HandoffFailureReachesDone ==
    (op = "CSVExtractor" /\ handoff = "rejected") => doneCalls[1] > 0

\* C13: once the record that removes the last required date was processed
\* the scan has halted: that record is the last one inspected
C13_HaltsWhenDrained ==
    (op = "getReports" /\ originalDates # {} /\ requiredDates = {}) =>
        idx = SetMax({ reports[d].file : d \in DOMAIN reports })

\* positions of lineArg at which DATE_PATTERN matches
DateMatches == { p \in 1..Len(lineArg) : DateAt(lineArg, p) }

\* no match of DATE_PATTERN in lineArg is directly followed by a digit
DatesDelimited ==
    \A p \in DateMatches : p + 10 > Len(lineArg) \/ lineArg[p + 10] \notin Digits

\* C12 as stated: convertDate of the result of convertDate is that result,
\* and a line without slash dates is returned unchanged
C12_Idempotent ==
    op = "convertDate" =>
        /\ (Len(passes) >= 2 => passes[2] = passes[1])
        /\ (Len(passes) >= 1 /\ DateMatches = {} => passes[1] = lineArg)

\* C12 as amended: the second application changes nothing when no date of
\* the line is directly followed by a digit, and a line without slash dates
\* is returned unchanged
C12_IdempotentWhenDelimited ==
    op = "convertDate" =>
        /\ (Len(passes) >= 2 /\ DatesDelimited => passes[2] = passes[1])
        /\ (Len(passes) >= 1 /\ DateMatches = {} => passes[1] = lineArg)

C12_Witness ==
    /\ op = "convertDate"
    /\ Len(passes) = 2
    /\ Cardinality(DateMatches) = 2
    /\ DatesDelimited
    /\ passes[1] # lineArg
    /\ passes[2] = passes[1]

\* the state the two flags stand for
StreamState ==
    IF csvFound THEN "DATA" ELSE IF summaryFound THEN "SUMMARY" ELSE "HEADER"

\* the state after the step
StreamStateNext ==
    IF csvFound' THEN "DATA" ELSE IF summaryFound' THEN "SUMMARY" ELSE "HEADER"

\* C14: the flags are never both true; the state is HEADER exactly until
\* the first chunk, and a step either keeps the state or moves it from
\* HEADER to DATA or from DATA to SUMMARY; in SUMMARY no step changes a flag
C14_FlagStates ==
    /\ [](~(csvFound /\ summaryFound))
    /\ [](op = "CSVExtractor" => (StreamState = "HEADER" <=> Len(fed) = 0))
    /\ [][ /\ <<StreamState, StreamStateNext>> \in
                { <<"HEADER", "HEADER">>, <<"HEADER", "DATA">>, <<"DATA", "DATA">>,
                  <<"DATA", "SUMMARY">>, <<"SUMMARY", "SUMMARY">> }
           /\ (StreamState = "SUMMARY" =>
                 csvFound' = csvFound /\ summaryFound' = summaryFound) ]_vars

C14_Witness ==
    /\ op = "CSVExtractor"
    /\ StreamState = "SUMMARY"
    /\ Len(fed) = 4
    /\ Boundaries \cap {2, 3} = {2}
    /\ ~IsSummaryLine(fed[4])

\* the texts of the data lines pushed so far, in order
PushedLines ==
    LET ls == SelectSeq(out, LAMBDA e : e.kind = "line")
    IN  [k \in 1..Len(ls) |-> ls[k].text]

\* the position in fed of the last chunk before the first summary line
LastDataPosition ==
    IF Boundaries = {} THEN Len(fed) ELSE SetMin(Boundaries) - 1

\* C15: the data lines pushed are, in order, convertDate of each chunk
\* after the header and before the first summary line; the field names are
\* those of the header
C15_LinesAreConvertedData ==
    (op = "CSVExtractor" /\ Len(fed) >= 1) =>
        /\ PushedLines = [k \in 1..(LastDataPosition - 1) |-> convertDate(fed[k + 1])]
        /\ \A h \in EventsOf("fields") : out[h].names = Split(fed[1])

C15_Witness ==
    /\ op = "CSVExtractor"
    /\ Len(fed) = 4
    /\ fed[2] = ChunkDated
    /\ fed[3] = ChunkSpace
    /\ IsSummaryLine(fed[4])
    /\ Len(PushedLines) = 2
    /\ PushedLines[1] # fed[2]

\* a header directly followed by a summary line: field names, no data line
C15_WitnessNoRows ==
    /\ op = "CSVExtractor"
    /\ Len(fed) = 2
    /\ IsSummaryLine(fed[2])
    /\ PushedLines = <<>>
    /\ Cardinality(EventsOf("fields")) = 1

\* the record at position k ended more than lookbackDays days before now
OlderThanWindow(k) == today - Listing[k].ts > lookbackDays * TicksPerDay

\* C16: after a record was processed with the last DONE record seen older
\* than the lookback window, the scan has halted and returned its map
\* without an error, whatever dates are still required; today is the value
\* captured at call start
C16_LookbackStops ==
    (/\ op = "getReports"
     /\ idx > 0
     /\ latestDate # Null
     /\ today - latestDate > lookbackDays * TicksPerDay) =>
        /\ pc = "done"
        /\ stop = "lookback"
        /\ outcome = Returned(reports)
        /\ DOMAIN reports = originalDates \ requiredDates
        /\ today = Now

C16_Witness ==
    /\ op = "getReports"
    /\ pc = "done"
    /\ stop = "lookback"
    /\ idx < Len(Listing)
    /\ requiredDates # {}
    /\ \E k \in DonePositions :
          k > idx /\ DateKey(Listing[k].ts) \in requiredDates

\* C17 as stated: every entry of the map comes from a DONE record that
\* ended at most lookbackDays days before now
C17_OnlyWithinWindow ==
    op = "getReports" =>
        \A d \in DOMAIN reports :
            /\ Listing[reports[d].file].state = REPORT_AVAILABLE
            /\ ~OlderThanWindow(reports[d].file)

\* C17 as amended: every entry of the map comes from a DONE record that
\* ended at most lookbackDays days before now, or from the record whose
\* processing tripped the lookback break, the last one inspected
C17_WithinWindowOrLast ==
    op = "getReports" =>
        \A d \in DOMAIN reports :
            /\ Listing[reports[d].file].state = REPORT_AVAILABLE
            /\ \/ ~OlderThanWindow(reports[d].file)
               \/ reports[d].file = idx /\ stop = "lookback" /\ pc = "done"

C17_Witness ==
    /\ op = "getReports"
    /\ pc = "done"
    /\ stop = "lookback"
    /\ \E d, e \in DOMAIN reports :
          /\ reports[d].file = idx
          /\ OlderThanWindow(idx)
          /\ ~OlderThanWindow(reports[e].file)
    /\ idx < Len(Listing)

\* the DONE records inspected so far whose date is d
InspectedWithDate(d) ==
    { k \in DonePositions : k <= idx /\ DateKey(Listing[k].ts) = d }

\* C18: the entry of a date is that of the first inspected DONE record with
\* that date; a later record with the same date does not replace it
C18_FirstRecordWins ==
    op = "getReports" =>
        \A d \in DOMAIN reports :
            /\ InspectedWithDate(d) # {}
            /\ reports[d] = [url  |-> Listing[SetMin(InspectedWithDate(d))].url,
                             file |-> SetMin(InspectedWithDate(d))]

C18_Witness ==
    /\ op = "getReports"
    /\ pc = "done"
    /\ \E d \in DOMAIN reports :
          /\ Cardinality(InspectedWithDate(d)) >= 2
          /\ reports[d].file = 1
          /\ reports[d].url = UrlAt(1)

\* C19: the keys of the map and the dates still in the set are disjoint
\* and together are the dates originally required; each entry comes from a
\* DONE record of the listing with that date
C19_Partition ==
    op = "getReports" =>
        /\ DOMAIN reports \cap requiredDates = {}
        /\ DOMAIN reports \cup requiredDates = originalDates
        /\ \A d \in DOMAIN reports :
              /\ reports[d].file \in DonePositions
              /\ DateKey(Listing[reports[d].file].ts) = d
              /\ reports[d].url = Listing[reports[d].file].url
        /\ (pc = "done" /\ outcome.status = "returned" => outcome.value = reports)

C19_Witness ==
    /\ op = "getReports"
    /\ pc = "done"
    /\ outcome.status = "returned"
    /\ DOMAIN reports # {}
    /\ requiredDates # {}
    /\ idx = MaxRecords

\* C20: done was invoked exactly once for every chunk handed to _transform,
\* except that it was not yet invoked for the header chunk while its
\* handoff has not resolved
C20_DoneExactlyOnce ==
    op = "CSVExtractor" =>
        /\ Len(doneCalls) = Len(fed)
        /\ \A k \in 1..Len(fed) :
              doneCalls[k] = IF k = 1 /\ handoff # "resolved" THEN 0 ELSE 1

C20_Witness ==
    /\ op = "CSVExtractor"
    /\ handoff = "resolved"
    /\ Len(fed) = 4
    /\ ~IsSummaryLine(fed[2])
    /\ IsSummaryLine(fed[3])
    /\ Cardinality(EventsOf("eos")) = 1
    /\ \A k \in 1..4 : doneCalls[k] = 1

====
